---- MODULE Spec2Model ----
(***************************************************************************)
(* A model of ensemble.py (aekiss/ensemble): the ensemble-generation pass  *)
(* of ensemble(yamlfile, test) and its run-count reconciliation loop.      *)
(*                                                                         *)
(* The state is the part of the filesystem the function reads and writes   *)
(* (the template experiment, the variant directories, their archives, the  *)
(* sync destinations), the parsed specification, and the position of the   *)
(* single thread of control inside ensemble().  Every action is one block  *)
(* of the function body; several invocations of ensemble() follow one      *)
(* another (StartRun), each over the same specification.                   *)
(***************************************************************************)
EXTENDS Integers, Sequences, FiniteSets, TLC

VARIABLES
    indata,      \* the parsed YAML specification (yaml.load, line 54)
    test,        \* the --test flag
    template,    \* the template experiment directory and its repository
    dirs,        \* the variant directories, by experiment name
    archive,     \* the archive directory of each variant (…/archive/<expname>)
    syncExists,  \* the sync destination paths that exist on disk
    submitted,   \* the cycles of each experiment's last executed `payu run`
    pc,          \* position of control inside ensemble()
    run,         \* number of the current invocation of ensemble()
    idx,         \* index of the current axis value in the flattened loops
    ensemble,    \* the list `ensemble` (paths to ensemble members)
    workpath,    \* the local `workpath` of the current attempt
    ops,         \* what the current attempt has done so far
    log,         \* one record per finished attempt of the current run
    visits,      \* one record per path visited by the reconciliation loop
    error,       \* the exception that ended the current run, or "none"
    prev         \* what the previous invocation left behind

vars == <<indata, test, template, dirs, archive, syncExists, submitted, pc,
          run, idx, ensemble, workpath, ops, log, visits, error, prev>>

-----------------------------------------------------------------------------
(* Bounds of the model.                                                    *)

MaxValues == 2    \* axis values (variant attempts) in a specification
MaxRuns == 2      \* consecutive invocations of ensemble()
MaxNRuns == 1     \* largest nruns of a specification
MaxLines == 2     \* lines of a sync_data.sh drawn as input

-----------------------------------------------------------------------------
(* Strings, as sequences of characters: str(x).strip().lower().zfill(3).   *)

lower_char(c) ==
    CASE c = "R" -> "r" [] c = "E" -> "e" [] c = "S" -> "s" [] c = "T" -> "t"
      [] OTHER -> c

\* the case left as it is
lower_kept(s) == s

lower(s) == [i \in 1..Len(s) |-> lower_char(s[i])]

RECURSIVE lstrip(_)
lstrip(s) == IF s # <<>> /\ Head(s) = " " THEN lstrip(Tail(s)) ELSE s

RECURSIVE rstrip(_)
rstrip(s) ==
    IF s # <<>> /\ s[Len(s)] = " " THEN rstrip(SubSeq(s, 1, Len(s) - 1)) ELSE s

strip(s) == rstrip(lstrip(s))

RECURSIVE zfill(_, _)
zfill(s, width) == IF Len(s) >= width THEN s ELSE zfill(<<"0">> \o s, width)

\* line 58: startfrom = str(indata['startfrom']).strip().lower().zfill(3)
normalize(raw) == zfill(lower(strip(raw)), 3)

startfrom == normalize(indata.startfrom)

rest == <<"r", "e", "s", "t">>

\* glob pattern output[0-9][0-9][0-9]* of line 217, on the suffix of "output"
Digits == {"0", "1", "2", "3", "4", "5", "6", "7", "8", "9"}

matches_output_ddd(suffix) ==
    Len(suffix) >= 3 /\ \A i \in 1..3 : suffix[i] \in Digits

-----------------------------------------------------------------------------
(* Axes, values and namelists.                                             *)

TestTemplate == "test/1deg_jra55_iaf"          \* line 145
OtherTemplate == "1deg_jra55_iaf"

\* line 63: the axis that is patched as the pair (cosw, sinw)
turningangle(e) ==
    <<e.fname, e.group, e.name>> =
        <<"ice/cice_in.nml", "dynamics_nml", "turning_angle">>

Entry(f, g, n, v) ==
    [fname |-> f, group |-> g, name |-> n, v |-> v, wellformed |-> TRUE]

\* a node of `namelists` that is not a mapping / a values entry that is not a
\* list: iterating it raises (lines 60-64)
Malformed ==
    [fname |-> "malformed.nml", group |-> "", name |-> "", v |-> 0,
     wellformed |-> FALSE]

Entries ==
    { Entry("ice/cice_in.nml", "dynamics_nml", "turning_angle", 0),
      Entry("ice/cice_in.nml", "dynamics_nml", "turning_angle", 30),
      Entry("ice/cice_in.nml", "dynamics_nml", "ndte", 1),
      Entry("ocean/input.nml", "ocean_nml", "ndte", 1) }

\* lines 65-67: exppath = cwd/<template>_<name>_<str(v)>; the template and the
\* working directory are the same for every variant of a state
expname(e) == <<e.name, e.v>>

ExpNames == { expname(e) : e \in Entries }

\* a namelist variable is addressed by file, group and name
Key(e, n) == <<e.fname, e.group, n>>

NmlKeys ==
    { Key(e, e.name) : e \in { x \in Entries : ~turningangle(x) } }
        \cup { <<"ice/cice_in.nml", "dynamics_nml", "cosw">>,
               <<"ice/cice_in.nml", "dynamics_nml", "sinw">> }

\* lines 78-79: np.cos / np.sin of v*pi/180, as floats scaled by 1000
np_cos(v) == CASE v = 0 -> 1000 [] v = 30 -> 866 [] OTHER -> 0
np_sin(v) == CASE v = 0 -> 0 [] v = 30 -> 500 [] OTHER -> 1000

\* A namelist maps each key to the set of values it holds: {} when the
\* variable is not set in the file, {x} when it is set to x.
isset(nml, k) == nml[k] # {}

MkNml(c, s, g, h) ==
    [k \in NmlKeys |->
        CASE k = <<"ice/cice_in.nml", "dynamics_nml", "cosw">> -> c
          [] k = <<"ice/cice_in.nml", "dynamics_nml", "sinw">> -> s
          [] k = <<"ice/cice_in.nml", "dynamics_nml", "ndte">> -> g
          [] OTHER -> h]

-----------------------------------------------------------------------------
(* The template experiment: its working-tree namelists (what open() reads, *)
(* line 75), the namelists committed at its HEAD (what a clone receives,   *)
(* line 91) and whether it has an `archive` entry.                         *)

CleanTemplate(nml) == [nml |-> nml, head |-> nml]

TemplateStates ==
    { CleanTemplate(MkNml({np_cos(0)}, {np_sin(0)}, {2}, {2})),
      \* cosw and sinw not set in the template's namelist
      CleanTemplate(MkNml({}, {}, {2}, {1})),
      \* cosw as for 0 degrees, sinw as for 30 degrees
      CleanTemplate(MkNml({np_cos(0)}, {np_sin(30)}, {1}, {2})),
      \* uncommitted edits in the template's working tree
      [nml |-> MkNml({np_cos(0)}, {np_sin(30)}, {2}, {2}),
       head |-> MkNml({np_cos(30)}, {np_sin(30)}, {1}, {1})] }

-----------------------------------------------------------------------------
(* sync_data.sh: a file is a sequence of lines, a line a sequence of       *)
(* tokens; "/" is a token of its own, no other token contains a slash.     *)

\* the last component of exppath, as text
basename(name) == "1deg_jra55_iaf_" \o name[1] \o "_" \o ToString(name[2])

\* line 117: line.startswith('SYNCDIR=')
startswith_SYNCDIR(line) == line # <<>> /\ Head(line) = "SYNCDIR="

\* p.rfind('/') + 1
rfind_slash(p) ==
    IF \E i \in 1..Len(p) : p[i] = "/"
    THEN CHOOSE i \in 1..Len(p) :
             p[i] = "/" /\ \A j \in (i + 1)..Len(p) : p[j] # "/"
    ELSE 0

RECURSIVE rstrip_slash(_)
rstrip_slash(p) ==
    IF p # <<>> /\ p[Len(p)] = "/"
    THEN rstrip_slash(SubSeq(p, 1, Len(p) - 1))
    ELSE p

\* the directory kept whole, only the newline dropped
dirname_whole(p) == rstrip_slash(SubSeq(p, 1, Len(p) - 1))

\* os.path.dirname: everything before the last slash, trailing slashes
\* removed unless it consists of slashes only
dirname(p) ==
    LET head == SubSeq(p, 1, rfind_slash(p))
    IN  IF \E i \in 1..Len(head) : head[i] # "/"
        THEN rstrip_slash(head)
        ELSE head

\* os.path.join(a, b) for a relative one-component b
join(a, b) ==
    IF a = <<>> \/ a[Len(a)] = "/" THEN Append(a, b) ELSE a \o <<"/", b>>

\* lines 118-119: syncdir for one SYNCDIR= line
syncdir_of(line, name) == join(dirname(Tail(line)), basename(name))

\* lines 114-121: the file written to sync_data.sh_tmp
rewrite_sync(lines, name) ==
    [i \in 1..Len(lines) |->
        IF startswith_SYNCDIR(lines[i])
        THEN <<"SYNCDIR=">> \o syncdir_of(lines[i], name) \o <<"\n">>
        ELSE lines[i]]

\* the local variable syncdir after the loop over the lines: the value of
\* the last SYNCDIR= line, or not bound when there is none (every clone
\* has the template's file, so no earlier variant can have bound it)
syncdir_after(lines, name) ==
    LET hits == { i \in 1..Len(lines) : startswith_SYNCDIR(lines[i]) }
    IN  IF hits = {}
        THEN {}
        ELSE { syncdir_of(lines[CHOOSE i \in hits :
                                    \A j \in hits : j <= i], name) }

\* the sync_data.sh of the template used for whole runs
StandardSync ==
    << <<"#", "SYNCDIR=", "local", "\n">>,
       <<"SYNCDIR=", "/", "sync", "/", "control", "\n">>,
       <<"rsync", "\n">> >>

\* the destination of variant `name` under StandardSync
SyncDest(name) == <<"/", "sync", "/", basename(name)>>

-----------------------------------------------------------------------------
(* Variant directories.                                                    *)

NoDir ==
    [exists |-> FALSE, nml |-> MkNml({}, {}, {}, {}),
     head |-> MkNml({}, {}, {}, {}), branch |-> <<>>, remotes |-> {},
     sync |-> <<>>, links |-> {}, jobname |-> <<>>, metadata |-> FALSE,
     commits |-> <<>>, tmp2 |-> {}, tmp |-> {}, summary |-> FALSE]

\* the remote left under its old name
rename_lost(remotes, old, new) == remotes

\* line 92: exprepo.remotes.origin.rename('template'); a remote is a pair
\* of its name and its URL
rename(remotes, old, new) ==
    { IF r[1] = old THEN <<new, r[2]>> ELSE r : r \in remotes }

\* line 93: exprepo.create_remote('origin', url)
create_remote(remotes, name, url) == remotes \cup {<<name, url>>}

\* lines 91-95: clone of the template's HEAD, remote origin renamed to
\* template, a new origin with the template's origin URL, a new branch
clone(t, name) ==
    [exists |-> TRUE, nml |-> t.head, head |-> t.head, branch |-> name,
     remotes |-> create_remote(rename({<<"origin", "templatepath">>},
                                      "origin", "template"),
                               "origin", t.origin),
     sync |-> t.sync,
     links |-> {}, jobname |-> <<"template">>, metadata |-> FALSE,
     commits |-> <<>>, tmp2 |-> {}, tmp |-> {}, summary |-> t.summary]

\* f90nml.patch(fpath, {group: {key: value}}, out): only the named variable
\* changes
patch(nml, k, value) == [nml EXCEPT ![k] = {value}]

\* the patch written over the file it was read from
patch_in_place(d, out, nml) == [d EXCEPT !.nml = nml, ![out] = {nml}]

\* the third argument of f90nml.patch: the patched namelist is written to
\* the file `out` (fpath_tmp2 or fpath_tmp), fpath itself is only read
patch_output(d, out, nml) == [d EXCEPT ![out] = {nml}]

\* lines 100 and 104: the patch of the first f90nml.patch call
first_patch(nml, e) ==
    IF turningangle(e)
    THEN patch(nml, Key(e, "cosw"), np_cos(e.v))
    ELSE patch(nml, Key(e, e.name), e.v)

\* the second patch of the turning angle lost
second_patch_lost(nml, e) == nml

\* line 101: the patch of the second f90nml.patch call
second_patch(nml, e) == patch(nml, Key(e, "sinw"), np_sin(e.v))

\* a repository that always reports uncommitted changes
is_dirty_always(d) == TRUE

\* exprepo.is_dirty(): tracked files differ from the checked-out commit
is_dirty(d) == d.nml # d.head

\* lines 80-83 raise KeyError when the variable read is not in the namelist;
\* `and` reads sinw only when cosw matched
noop_raises(nml, e) ==
    IF turningangle(e)
    THEN \/ ~isset(nml, Key(e, "cosw"))
         \/ /\ nml[Key(e, "cosw")] = {np_cos(e.v)}
            /\ ~isset(nml, Key(e, "sinw"))
    ELSE ~isset(nml, Key(e, e.name))

\* the comparison with cosw and sinw swapped
skip_swapped(nml, e) ==
    IF turningangle(e)
    THEN /\ nml[Key(e, "cosw")] = {np_sin(e.v)}
         /\ nml[Key(e, "sinw")] = {np_cos(e.v)}
    ELSE nml[Key(e, e.name)] = {e.v}

\* lines 77-83: skip
skip(nml, e) ==
    IF turningangle(e)
    THEN /\ nml[Key(e, "cosw")] = {np_cos(e.v)}
         /\ nml[Key(e, "sinw")] = {np_sin(e.v)}
    ELSE nml[Key(e, e.name)] = {e.v}

\* an archive directory: the number of its entries matching
\* output[0-9][0-9][0-9]* and restart*
NoArchive == [exists |-> FALSE, outputs |-> 0, restarts |-> 0]

\* lines 152-153: glob(archivepath/output*) + glob(archivepath/restart*)
archive_in_use(a) == a.outputs + a.restarts > 0

\* line 217: len(glob(exppath/archive/output[0-9][0-9][0-9]*))
output_count(name) ==
    IF "archive" \in dirs[name].links THEN archive[name].outputs ELSE 0

\* the seed cycle counted as a completed run
doneruns_with_seed(k) == k

\* line 217
doneruns(k) == k - 1

\* the completed runs not subtracted
newruns_all(nruns, done) == nruns

\* line 218
newruns(nruns, done) == nruns - done

-----------------------------------------------------------------------------
(* Initial states: a specification, a template and a filesystem in which   *)
(* no variant directory exists yet.                                        *)

AllKeys == {"template", "startfrom", "nruns", "namelists"}

\* the items of nested mappings come file by file, group by group
Grouped(s) ==
    \A i, j, k \in 1..Len(s) :
        i < j /\ j < k =>
            /\ s[i].fname = s[k].fname => s[j].fname = s[i].fname
            /\ (s[i].fname = s[k].fname /\ s[i].group = s[k].group)
                   => s[j].group = s[i].group
            /\ (s[i].fname = s[k].fname /\ s[i].group = s[k].group
                    /\ s[i].name = s[k].name) => s[j].name = s[i].name

\* nothing after a malformed node is ever read
Namelists ==
    { s \in UNION { [1..n -> Entries \cup {Malformed}] : n \in 1..MaxValues } :
        /\ Grouped(s)
        /\ \A i \in 1..(Len(s) - 1) : s[i].wellformed }

StartfromInputs == { <<" ", "R", "e", "s", "t">>, <<"3">> }

Names(s) == { expname(s[i]) : i \in { j \in 1..Len(s) : s[j].wellformed } }

Init ==
    /\ test \in BOOLEAN
    /\ \E nl \in Namelists, ks \in {AllKeys} \cup {AllKeys \ {k} : k \in AllKeys},
          sf \in StartfromInputs, n \in 0..MaxNRuns,
          tn \in {TestTemplate, OtherTemplate} :
          /\ ks # AllKeys => Len(nl) = 1 /\ nl[1].wellformed
          /\ (~test \/ normalize(sf) = rest) => tn = OtherTemplate
          /\ indata = [keys |-> ks, template |-> tn, startfrom |-> sf,
                       nruns |-> n, namelists |-> nl]
    /\ \E t \in TemplateStates, a \in BOOLEAN :
          /\ a = FALSE => test /\ startfrom # rest
          /\ template = [nml |-> t.nml, head |-> t.head, archive |-> a,
                         sync |-> StandardSync, origin |-> "template_origin",
                         summary |-> TRUE]
    /\ dirs = [name \in ExpNames |-> NoDir]
    /\ \E inuse \in SUBSET Names(indata.namelists) :
          archive = [name \in ExpNames |->
                        IF name \in inuse
                        THEN [exists |-> TRUE, outputs |-> 1, restarts |-> 1]
                        ELSE NoArchive]
    /\ syncExists \in SUBSET { SyncDest(name) : name \in Names(indata.namelists) }
    /\ \A name \in ExpNames : SyncDest(name) \in syncExists => ~archive[name].exists
    /\ submitted = [name \in ExpNames |-> 0]
    /\ pc = "load"
    /\ run = 1
    /\ idx = 0
    /\ ensemble = <<>>
    /\ workpath = "unset"
    /\ ops = {}
    /\ log = <<>>
    /\ visits = <<>>
    /\ error = "none"
    /\ prev = [complete |-> FALSE, dirs |-> {}, log |-> <<>>]

-----------------------------------------------------------------------------
(* The body of ensemble(), one action per block.                           *)

env == <<indata, test, syncExists>>

cur == indata.namelists[idx]

Existing == { name \in ExpNames : dirs[name].exists }

\* the existence check looking at a path that is never there
path_exists_never(name) == FALSE

\* line 69: os.path.exists(exppath)
path_exists(name) == dirs[name].exists

\* the append left out
append_dropped(ens, name) == ens

\* lines 71 and 212: ensemble.append(exppath)
append(ens, name) == Append(ens, name)

\* the symlink made for any template that has no archive
link_template_archive_always(tn, t) ==
    IF ~t.archive THEN [t EXCEPT !.archive = TRUE] ELSE t

\* lines 145-148, test mode: the template gets an archive symlink when it
\* is the test template and has none
link_template_archive(tn, t) ==
    IF tn = TestTemplate /\ ~t.archive
    THEN [t EXCEPT !.archive = TRUE]
    ELSE t

\* a removal that follows the variant into its archive directory
rmtree_follow(name) ==
    [dirs |-> [dirs EXCEPT ![name] = NoDir],
     archive |-> [archive EXCEPT ![name] = NoArchive]]

\* shutil.rmtree(exppath), lines 108, 125, 155: the variant directory goes,
\* the archive directory lies outside it and stays
rmtree(name) ==
    [dirs |-> [dirs EXCEPT ![name] = NoDir], archive |-> archive]

LogEntry(outcome, done, ex) ==
    [name |-> expname(cur), outcome |-> outcome, ops |-> done, exists |-> ex]

\* an exception leaves ensemble(); the variant directory stays as it is
Raise(kind, done, ex) ==
    /\ pc' = "failed"
    /\ error' = kind
    /\ ops' = done
    /\ log' = IF pc \in {"load", "loop", "count", "reconcile"}
              THEN log
              ELSE Append(log, LogEntry("Raised", done, ex))

\* the attempt ends with an outcome; the loop goes on (continue / line 212)
EndAttempt(outcome, done, ex) ==
    /\ pc' = "loop"
    /\ ops' = done
    /\ log' = Append(log, LogEntry(outcome, done, ex))
    /\ UNCHANGED error

\* lines 54-60: the keys template, startfrom and namelists are read before
\* the loops start
LoadConfig ==
    /\ pc = "load"
    /\ IF {"template", "startfrom", "namelists"} \subseteq indata.keys
       THEN pc' = "loop" /\ UNCHANGED <<error, ops, log>>
       ELSE Raise("ConfigError", ops, FALSE)
    /\ UNCHANGED <<env, template, dirs, archive, submitted, run, idx,
                   ensemble, workpath, visits, prev>>

\* lines 60-67: the next value of the nested loops, or the end of them
NextValue ==
    /\ pc = "loop"
    /\ IF idx < Len(indata.namelists)
       THEN IF indata.namelists[idx + 1].wellformed
            THEN /\ idx' = idx + 1
                 /\ pc' = "exists"
                 /\ ops' = {}
                 /\ UNCHANGED <<error, log>>
            ELSE /\ Raise("ConfigError", ops, FALSE)
                 /\ UNCHANGED idx
       ELSE /\ pc' = "count"
            /\ UNCHANGED <<idx, error, ops, log>>
    /\ workpath' = "unset"
    /\ UNCHANGED <<env, template, dirs, archive, submitted, run, ensemble,
                   visits, prev>>

\* lines 69-72
ExistenceCheck ==
    /\ pc = "exists"
    /\ IF path_exists(expname(cur))
       THEN /\ ensemble' = append(ensemble, expname(cur))
            /\ EndAttempt("AlreadyExists", ops, TRUE)
       ELSE /\ pc' = "noop"
            /\ UNCHANGED <<ensemble, ops, log, error>>
    /\ UNCHANGED <<env, template, dirs, archive, submitted, run, idx,
                   workpath, visits, prev>>

\* lines 74-86
NoOpDetection ==
    /\ pc = "noop"
    /\ LET done == ops \cup {"read_template"}
       IN  IF noop_raises(template.nml, cur)
           THEN Raise("KeyError", done, FALSE)
           ELSE IF skip(template.nml, cur)
                THEN EndAttempt("IdenticalToTemplate", done, FALSE)
                ELSE /\ pc' = "clone"
                     /\ ops' = done
                     /\ UNCHANGED <<log, error>>
    /\ UNCHANGED <<env, template, dirs, archive, submitted, run, idx,
                   ensemble, workpath, visits, prev>>

\* lines 88-95
Clone ==
    /\ pc = "clone"
    /\ dirs' = [dirs EXCEPT ![expname(cur)] = clone(template, expname(cur))]
    /\ ops' = ops \cup {"clone"}
    /\ pc' = "patch"
    /\ UNCHANGED <<env, template, archive, submitted, run, idx, ensemble,
                   workpath, log, visits, error, prev>>

\* lines 97-100 and 104: the first f90nml.patch reads fpath and writes
\* fpath_tmp2 (turning angle) or fpath_tmp (general case)
Patch ==
    /\ pc = "patch"
    /\ LET d == dirs[expname(cur)]
       IN  dirs' = [dirs EXCEPT ![expname(cur)] =
                       patch_output(d, IF turningangle(cur) THEN "tmp2"
                                                            ELSE "tmp",
                                    first_patch(d.nml, cur))]
    /\ pc' = IF turningangle(cur) THEN "patch_sinw" ELSE "rename"
    /\ UNCHANGED <<env, template, archive, submitted, run, idx, ensemble,
                   workpath, ops, log, visits, error, prev>>

\* line 101: the second f90nml.patch reads fpath_tmp2 and writes fpath_tmp;
\* when it cannot (an I/O error), the exception leaves ensemble()
PatchSinw ==
    /\ pc = "patch_sinw"
    /\ LET d == dirs[expname(cur)]
       IN  \/ /\ dirs' = [dirs EXCEPT ![expname(cur)] =
                            patch_output(d, "tmp",
                                second_patch(CHOOSE n \in d.tmp2 : TRUE,
                                             cur))]
              /\ pc' = "remove"
              /\ UNCHANGED <<ops, log, error>>
           \/ /\ Raise("OSError", ops, TRUE)
              /\ UNCHANGED dirs
    /\ UNCHANGED <<env, template, archive, submitted, run, idx, ensemble,
                   workpath, visits, prev>>

\* line 102: os.remove(fpath_tmp2)
RemoveTmp2 ==
    /\ pc = "remove"
    /\ dirs' = [dirs EXCEPT ![expname(cur)].tmp2 = {}]
    /\ pc' = "rename"
    /\ UNCHANGED <<env, template, archive, submitted, run, idx, ensemble,
                   workpath, ops, log, visits, error, prev>>

\* line 105: os.rename(fpath_tmp, fpath)
RenameTmp ==
    /\ pc = "rename"
    /\ LET d == dirs[expname(cur)]
       IN  dirs' = [dirs EXCEPT ![expname(cur)] =
                       [d EXCEPT !.nml = CHOOSE n \in d.tmp : TRUE,
                                 !.tmp = {}]]
    /\ ops' = ops \cup {"patch"}
    /\ pc' = "dirty"
    /\ UNCHANGED <<env, template, archive, submitted, run, idx, ensemble,
                   workpath, log, visits, error, prev>>

\* lines 106-109
DirtyCheck ==
    /\ pc = "dirty"
    /\ IF ~is_dirty(dirs[expname(cur)])
       THEN /\ dirs' = rmtree(expname(cur)).dirs
            /\ archive' = rmtree(expname(cur)).archive
            /\ EndAttempt("DiscardedDuplicate", ops \cup {"rmtree"},
                          rmtree(expname(cur)).dirs[expname(cur)].exists)
       ELSE /\ pc' = "sync"
            /\ UNCHANGED <<dirs, archive, ops, log, error>>
    /\ UNCHANGED <<env, template, submitted, run, idx, ensemble, workpath,
                   visits, prev>>

\* lines 111-126: sync_data.sh rewritten, then the destination looked up;
\* without a SYNCDIR= line the name syncdir is not bound at line 123
SyncConfigure ==
    /\ pc = "sync"
    /\ LET name == expname(cur)
           d == dirs[name]
           target == syncdir_after(d.sync, name)
           written == [dirs EXCEPT ![name].sync = rewrite_sync(d.sync, name)]
       IN  IF target = {}
           THEN /\ dirs' = written
                /\ Raise("UnboundLocalError", ops \cup {"sync"}, TRUE)
                /\ UNCHANGED archive
           ELSE IF target \subseteq syncExists
           THEN /\ dirs' = rmtree(name).dirs
                /\ archive' = rmtree(name).archive
                /\ EndAttempt("DiscardedSyncConflict",
                              ops \cup {"sync", "rmtree"},
                              rmtree(name).dirs[name].exists)
           ELSE /\ dirs' = written
                /\ pc' = IF startfrom # rest THEN "setup" ELSE "metadata"
                /\ ops' = ops \cup {"sync"}
                /\ UNCHANGED <<archive, log, error>>
    /\ UNCHANGED <<env, template, submitted, run, idx, ensemble, workpath,
                   visits, prev>>

\* lines 131-134: payu sweep && payu setup (check=False), the work path,
\* payu sweep (check=True).  payu setup creates the work directory and the
\* archive directory; when it fails there is no work symlink to resolve.
PayuSetup ==
    /\ pc = "setup"
    /\ ~test
    /\ LET seen == IF archive_in_use(archive[expname(cur)])
                   THEN {"setup", "archive_in_use"} ELSE {"setup"}
       IN  \/ /\ archive' = [archive EXCEPT ![expname(cur)].exists = TRUE]
              /\ workpath' = "staged"
              /\ pc' = "archive"
              /\ ops' = ops \cup seen
              /\ UNCHANGED <<log, error>>
           \/ /\ workpath' = "unresolved"
              /\ pc' = "archive"
              /\ ops' = ops \cup seen \cup {"tool_failed"}
              /\ UNCHANGED <<archive, log, error>>
           \/ /\ Raise("CalledProcessError",
                       ops \cup seen \cup {"tool_failed"}, TRUE)
              /\ UNCHANGED <<archive, workpath>>
    /\ UNCHANGED <<env, template, dirs, submitted, run, idx, ensemble,
                   visits, prev>>

\* lines 135-148: the effect of payu setup simulated; os.makedirs raises
\* when the archive directory is already there
TestSetup ==
    /\ pc = "setup"
    /\ test
    /\ LET seen == IF archive_in_use(archive[expname(cur)])
                   THEN {"setup", "archive_in_use"} ELSE {"setup"}
       IN  IF archive[expname(cur)].exists
           THEN /\ dirs' = [dirs EXCEPT ![expname(cur)].links =
                                            @ \cup {"work"}]
                /\ Raise("FileExistsError", ops \cup seen, TRUE)
                /\ UNCHANGED <<archive, workpath, template>>
           ELSE /\ archive' = [archive EXCEPT ![expname(cur)].exists = TRUE]
                /\ workpath' = "staged"
                /\ template' = link_template_archive(indata.template, template)
                /\ pc' = "archive"
                /\ ops' = ops \cup seen \cup
                       IF link_template_archive(indata.template, template)
                              # template
                       THEN {"template_archive"} ELSE {}
                /\ UNCHANGED <<dirs, log, error>>
    /\ UNCHANGED <<env, submitted, run, idx, ensemble, visits, prev>>

\* lines 151-156: the archive path inferred from the work path; without a
\* staged work path it names nothing that exists
ArchiveCheck ==
    /\ pc = "archive"
    /\ IF workpath = "staged" /\ archive_in_use(archive[expname(cur)])
       THEN /\ dirs' = rmtree(expname(cur)).dirs
            /\ archive' = rmtree(expname(cur)).archive
            /\ EndAttempt("DiscardedArchiveConflict", ops \cup {"rmtree"},
                          rmtree(expname(cur)).dirs[expname(cur)].exists)
       ELSE /\ pc' = "link"
            /\ UNCHANGED <<dirs, archive, ops, log, error>>
    /\ UNCHANGED <<env, template, submitted, run, idx, ensemble, workpath,
                   visits, prev>>

\* lines 157-168: archive symlink, restart symlink, copy of the template's
\* output<startfrom>/ice/cice_in.nml
RestartLink ==
    /\ pc = "link"
    /\ IF workpath # "staged"
       THEN \* the archive link dangles: line 162 raises
            /\ dirs' = [dirs EXCEPT ![expname(cur)].links =
                                        @ \cup {"archive_dangling"}]
            /\ Raise("FileNotFoundError", ops \cup {"link"}, TRUE)
            /\ UNCHANGED archive
       ELSE /\ archive' =
                  [archive EXCEPT ![expname(cur)] =
                      [@ EXCEPT !.restarts = @ + 1,
                                !.outputs =
                                    IF matches_output_ddd(startfrom)
                                    THEN @ + 1 ELSE @]]
            /\ IF template.archive
               THEN /\ dirs' = [dirs EXCEPT ![expname(cur)].links =
                                 @ \cup {"archive", "restart", "output_nml"}]
                    /\ pc' = "metadata"
                    /\ ops' = ops \cup {"link"}
                    /\ UNCHANGED <<log, error>>
               ELSE \* nothing to copy from: line 167 raises
                    /\ dirs' = [dirs EXCEPT ![expname(cur)].links =
                                 @ \cup {"archive", "restart"}]
                    /\ Raise("FileNotFoundError", ops \cup {"link"}, TRUE)
    /\ UNCHANGED <<env, template, submitted, run, idx, ensemble, workpath,
                   visits, prev>>

\* lines 170-203: jobname in config.yaml, metadata.yaml
MetadataUpdate ==
    /\ pc = "metadata"
    /\ dirs' = [dirs EXCEPT ![expname(cur)] =
                   [@ EXCEPT !.jobname = expname(cur), !.metadata = TRUE]]
    /\ ops' = ops \cup {"metadata"}
    /\ pc' = "commit"
    /\ UNCHANGED <<env, template, archive, submitted, run, idx, ensemble,
                   workpath, log, visits, error, prev>>

\* lines 205-212: git rm run_summary_*.csv, commit -a, ensemble.append
Commit ==
    /\ pc = "commit"
    /\ LET d == dirs[expname(cur)]
       IN  dirs' = [dirs EXCEPT ![expname(cur)] =
                       [d EXCEPT !.head = d.nml,
                                 !.summary = FALSE,
                                 !.commits =
                                     Append(@, <<"set up", expname(cur)>>)]]
    /\ ensemble' = append(ensemble, expname(cur))
    /\ EndAttempt("Committed", ops \cup {"rm_summary", "commit"}, TRUE)
    /\ UNCHANGED <<env, template, archive, submitted, run, idx, workpath,
                   visits, prev>>

\* line 215
CountRuns ==
    /\ pc = "count"
    /\ IF "nruns" \notin indata.keys
       THEN Raise("ConfigError_nruns", ops, FALSE)
       ELSE /\ pc' = IF indata.nruns > 0 THEN "reconcile" ELSE "done"
            /\ UNCHANGED <<error, ops, log>>
    /\ UNCHANGED <<env, template, dirs, archive, submitted, run, idx,
                   ensemble, workpath, visits, prev>>

\* the result list walked from its end
next_path_reversed(ens, seen) == ens[Len(ens) - Len(seen)]

\* line 216: for exppath in ensemble
next_path(ens, seen) == ens[Len(seen) + 1]

\* lines 216-227: one path of `ensemble`; the command is run by the shell,
\* which in test mode reads it as a comment
Reconcile ==
    /\ pc = "reconcile"
    /\ IF Len(visits) < Len(ensemble)
       THEN LET exppath == next_path(ensemble, visits)
                k == output_count(exppath)
                new == newruns(indata.nruns, doneruns(k))
            IN  /\ visits' = Append(visits,
                        [name |-> exppath, k |-> k, doneruns |-> doneruns(k),
                         newruns |-> new, dispatched |-> new > 0,
                         comment |-> test])
                /\ submitted' = IF new > 0 /\ ~test
                                THEN [submitted EXCEPT ![exppath] = new]
                                ELSE submitted
                /\ UNCHANGED pc
       ELSE /\ pc' = "done"
            /\ UNCHANGED <<visits, submitted>>
    /\ UNCHANGED <<env, template, dirs, archive, run, idx, ensemble,
                   workpath, ops, log, error, prev>>

\* the scheduler runs a submitted job to its end: `payu run -n N` adds N
\* output directories to the experiment's archive (and links the archive)
SchedulerRun ==
    /\ pc \in {"done", "failed"}
    /\ \E name \in ExpNames :
          /\ submitted[name] > 0
          /\ dirs[name].exists
          /\ archive' = [archive EXCEPT ![name] =
                            [@ EXCEPT !.exists = TRUE,
                                      !.outputs = @ + submitted[name]]]
          /\ dirs' = [dirs EXCEPT ![name].links =
                         (@ \ {"archive_dangling"}) \cup {"archive"}]
          /\ submitted' = [submitted EXCEPT ![name] = 0]
    /\ UNCHANGED <<env, template, pc, run, idx, ensemble, workpath, ops,
                   log, visits, error, prev>>

\* ensemble() is invoked again with the same specification
StartRun ==
    /\ pc \in {"done", "failed"}
    /\ run < MaxRuns
    /\ run' = run + 1
    /\ prev' = [complete |-> pc = "done", dirs |-> Existing, log |-> log]
    /\ pc' = "load"
    /\ idx' = 0
    /\ ensemble' = <<>>
    /\ workpath' = "unset"
    /\ ops' = {}
    /\ log' = <<>>
    /\ visits' = <<>>
    /\ error' = "none"
    /\ UNCHANGED <<env, template, dirs, archive, submitted>>

Next ==
    \/ LoadConfig
    \/ NextValue
    \/ ExistenceCheck
    \/ NoOpDetection
    \/ Clone
    \/ Patch
    \/ PatchSinw
    \/ RemoveTmp2
    \/ RenameTmp
    \/ DirtyCheck
    \/ SyncConfigure
    \/ PayuSetup
    \/ TestSetup
    \/ ArchiveCheck
    \/ RestartLink
    \/ MetadataUpdate
    \/ Commit
    \/ CountRuns
    \/ Reconcile
    \/ SchedulerRun
    \/ StartRun

Spec == Init /\ [][Next]_vars

-----------------------------------------------------------------------------
(* Properties.                                                             *)

InAttempt ==
    pc \in {"exists", "noop", "clone", "patch", "patch_sinw", "remove",
            "rename", "dirty", "sync", "setup",
            "archive", "link", "metadata", "commit"}

BetweenAttempts == pc \in {"loop", "count", "reconcile", "done"}

Contributing == {"Committed", "AlreadyExists"}

Outcomes ==
    {"AlreadyExists", "IdenticalToTemplate", "Committed",
     "DiscardedDuplicate", "DiscardedSyncConflict",
     "DiscardedArchiveConflict"}

Mutating == {"clone", "patch", "commit", "rmtree"}

\* C1: idempotence of a full pass.  When the previous run of ensemble() was
\* complete, the current run over the same specification and template has,
\* whenever one of its variant attempts has ended and when it is done, no
\* variant directory that did not exist when the previous run ended: a clone
\* made during the run is removed again before its attempt ends.
C1_Idempotent ==
    (prev.complete /\ BetweenAttempts) => Existing \subseteq prev.dirs

\* a second complete run that cloned a variant, discarded it again, and left
\* the directories of the first run in place
C1_Witness ==
    /\ prev.complete
    /\ pc = "done"
    /\ Existing # {}
    /\ \E i \in 1..Len(log) : {"clone", "rmtree"} \subseteq log[i].ops

\* C2 as stated: on the run after a complete run, every variant attempt ends
\* AlreadyExists with no template read, clone, patch or commit.
C2_AllAlreadyExists ==
    prev.complete =>
        \A i \in 1..Len(log) :
            log[i].outcome = "AlreadyExists" /\ log[i].ops = {}

\* C2 amended: on the run after a complete run, every variant attempt whose
\* attempt in the previous run ended Committed or AlreadyExists ends
\* AlreadyExists, without a template read, clone, patch or commit, and its
\* path is in the result list.
C2_BuiltAlreadyExists ==
    prev.complete =>
        \A i \in 1..Len(log) :
            prev.log[i].outcome \in Contributing =>
                /\ log[i].outcome = "AlreadyExists"
                /\ log[i].ops = {}
                /\ \E j \in 1..Len(ensemble) : ensemble[j] = log[i].name

\* a variant committed by the first run and found existing by the second
C2_Witness ==
    /\ prev.complete
    /\ \E i \in 1..Len(log) :
          /\ prev.log[i].outcome = "Committed"
          /\ log[i].outcome = "AlreadyExists"

\* the paths the finished attempts of a log contribute, in order
RECURSIVE Contributed(_)
Contributed(l) ==
    IF l = <<>> THEN <<>>
    ELSE IF Head(l).outcome \in Contributing
         THEN <<Head(l).name>> \o Contributed(Tail(l))
         ELSE Contributed(Tail(l))

\* C3: every variant attempt that has ended without raising has exactly one
\* of the six outcomes, there is one outcome per attempt, and the result
\* list holds exactly the paths of the attempts that ended Committed or
\* AlreadyExists, in order.
C3_OneOutcome ==
    /\ Len(log) = IF InAttempt THEN idx - 1 ELSE idx
    /\ \A i \in 1..Len(log) :
          /\ log[i].name = expname(indata.namelists[i])
          /\ log[i].outcome # "Raised" => log[i].outcome \in Outcomes
          /\ log[i].outcome = "Raised" => pc = "failed" /\ i = Len(log)
    /\ ensemble = Contributed(log)

\* a run in which one attempt contributed a path and another did not
C3_Witness ==
    /\ pc = "done"
    /\ \E i, j \in 1..Len(log) :
          /\ log[i].outcome = "Committed"
          /\ log[j].outcome \in Outcomes \ Contributing
    /\ Len(ensemble) = 1

\* the template's working tree holds exactly the value of the attempt
TemplateHolds(e) ==
    IF turningangle(e)
    THEN /\ template.nml[Key(e, "cosw")] = {np_cos(e.v)}
         /\ template.nml[Key(e, "sinw")] = {np_sin(e.v)}
    ELSE template.nml[Key(e, e.name)] = {e.v}

\* C4: no-op detection.  An attempt whose value equals the value the template
\* holds (for the turning angle: both cosw and sinw equal the derived pair)
\* never clones and never creates a directory: while it runs it is before
\* the clone, and when it has ended it has not cloned and the directory
\* exists only if it existed before (AlreadyExists).
C4_NoOpDetection ==
    /\ (InAttempt /\ TemplateHolds(cur)) =>
          /\ pc \in {"exists", "noop"}
          /\ "clone" \notin ops
    /\ \A i \in 1..Len(log) :
          TemplateHolds(indata.namelists[i]) =>
              /\ "clone" \notin log[i].ops
              /\ log[i].exists => log[i].outcome = "AlreadyExists"

\* a turning angle equal to the template's pair, detected and skipped
C4_Witness ==
    \E i \in 1..Len(log) :
        /\ turningangle(indata.namelists[i])
        /\ TemplateHolds(indata.namelists[i])
        /\ log[i].outcome = "IdenticalToTemplate"
        /\ ~dirs[log[i].name].exists

\* C5: archive conflict safety.  An attempt that reached RestartLinkage with
\* an archive holding output* or restart* entries, and whose setup tool did
\* not fail, ends with the variant directory gone, nothing committed and its
\* path not contributed - in normal mode and in test mode alike.
C5_ArchiveConflictSafe ==
    \A i \in 1..Len(log) :
        ("archive_in_use" \in log[i].ops /\ "tool_failed" \notin log[i].ops)
            => /\ ~log[i].exists
               /\ "commit" \notin log[i].ops
               /\ log[i].outcome \notin Contributing

\* C6: run reconciliation arithmetic.  Every path the reconciliation loop
\* has visited had k entries matching output[0-9][0-9][0-9]* in its archive,
\* doneruns = k - 1, and no run was dispatched for it when nruns <= doneruns;
\* with nruns <= 0 the loop visits nothing.
C6_Reconciliation ==
    /\ \A i \in 1..Len(visits) :
          /\ visits[i].name = ensemble[i]
          /\ pc = "reconcile" => visits[i].k = output_count(visits[i].name)
          /\ visits[i].doneruns = visits[i].k - 1
          /\ indata.nruns <= visits[i].k - 1 => ~visits[i].dispatched
    /\ indata.nruns <= 0 => visits = <<>>

\* a path with two archived cycles and nruns = 1: nothing is dispatched
C6_Witness ==
    /\ pc = "done"
    /\ \E i \in 1..Len(visits) :
          /\ visits[i].k = 2
          /\ indata.nruns = 1
          /\ ~visits[i].dispatched

\* the number of archived cycles the loop saw, or would see, for the i-th path
SeenCycles(i) ==
    IF i <= Len(visits) THEN visits[i].k ELSE output_count(ensemble[i])

\* C7 as stated: when a run is done, for every path of the result list with
\* remaining = nruns - (k - 1) > 0 a dispatch for exactly `remaining` cycles
\* was issued, for every non-negative nruns.
C7_DispatchRemaining ==
    pc = "done" =>
        \A i \in 1..Len(ensemble) :
            indata.nruns - (SeenCycles(i) - 1) > 0 =>
                /\ i <= Len(visits)
                /\ visits[i].dispatched
                /\ visits[i].newruns = indata.nruns - (SeenCycles(i) - 1)

\* C7 amended: when a run is done and nruns is positive, every path of the
\* result list was visited, and when remaining = nruns - (k - 1) > 0 a
\* dispatch for exactly `remaining` cycles was issued for it; in test mode
\* the command is a comment and no run is ever executed.
C7_DispatchRemainingPositive ==
    /\ (pc = "done" /\ indata.nruns > 0) =>
          /\ Len(visits) = Len(ensemble)
          /\ \A i \in 1..Len(ensemble) :
                /\ visits[i].name = ensemble[i]
                /\ indata.nruns - (visits[i].k - 1) > 0 =>
                      /\ visits[i].dispatched
                      /\ visits[i].newruns = indata.nruns - (visits[i].k - 1)
                      /\ visits[i].comment = test
    /\ test => \A name \in ExpNames : submitted[name] = 0

\* a path with one archived cycle, nruns = 1: one more cycle is dispatched
C7_Witness ==
    /\ pc = "done"
    /\ indata.nruns = 1
    /\ \E i \in 1..Len(visits) :
          /\ visits[i].k = 1
          /\ visits[i].dispatched
          /\ visits[i].newruns = 1
          /\ submitted[visits[i].name] = 1

\* C8 as stated: no step of ensemble() changes the template directory or the
\* template repository.
C8_TemplateNeverMutated == [][template' = template]_vars

\* C8 amended: no step changes the template's files or its repository; the
\* only change to the template directory is the `archive` symlink that a
\* test-mode build with restart linkage creates in the template
\* test/1deg_jra55_iaf when it has no archive entry.
C8_TemplateOnlyTestArchive ==
    [][\/ template' = template
       \/ /\ test
          /\ startfrom # rest
          /\ indata.template = TestTemplate
          /\ ~template.archive
          /\ template' = [template EXCEPT !.archive = TRUE]]_vars

\* a test-mode run that linked the template's archive and committed the
\* variant, with the template's namelists as they were
C8_Witness ==
    /\ pc = "done"
    /\ template.archive
    /\ \E i \in 1..Len(log) :
          /\ "template_archive" \in log[i].ops
          /\ log[i].outcome = "Committed"

\* C9: a run that fails with a configuration error (a key template,
\* startfrom or namelists absent, a malformed node of namelists) has cloned,
\* patched, committed or deleted no variant directory.
C9_ConfigErrorBeforeVariants ==
    (pc = "failed" /\ error = "ConfigError") =>
        \A i \in 1..Len(log) : log[i].ops \cap Mutating = {}

TurningAngle0 == Entry("ice/cice_in.nml", "dynamics_nml", "turning_angle", 0)
TurningAngle30 == Entry("ice/cice_in.nml", "dynamics_nml", "turning_angle", 30)

\* cosw / sinw of a namelist equal the pair derived from some listed angle
HoldsPair(nml) ==
    \E e \in {TurningAngle0, TurningAngle30} :
        /\ nml[Key(e, "cosw")] = {np_cos(e.v)}
        /\ nml[Key(e, "sinw")] = {np_sin(e.v)}

\* the first run over the single axis turning_angle: [0, 30], with no sync
\* destination in the way and no archive in use
Scenario ==
    /\ run = 1
    /\ indata.keys = AllKeys
    /\ indata.namelists = <<TurningAngle0, TurningAngle30>>
    /\ syncExists = {}
    /\ \A i \in 1..Len(log) : "archive_in_use" \notin log[i].ops

\* failures of the environment: the setup tool, a missing file, a directory
\* in the way
EnvironmentErrors ==
    {"CalledProcessError", "FileNotFoundError", "FileExistsError", "OSError"}

RunEnded == pc \in {"done", "failed"} /\ error \notin EnvironmentErrors

\* two committed variants, each on its own branch, each with the patched
\* namelist and one commit; a result list of length 2
TwoVariants ==
    /\ \A e \in {TurningAngle0, TurningAngle30} :
          LET d == dirs[expname(e)]
          IN  /\ d.exists
              /\ d.branch = expname(e)
              /\ d.nml[Key(e, "cosw")] = {np_cos(e.v)}
              /\ d.nml[Key(e, "sinw")] = {np_sin(e.v)}
              /\ d.head = d.nml
              /\ d.commits = <<<<"set up", expname(e)>>>>
    /\ ensemble = <<expname(TurningAngle0), expname(TurningAngle30)>>

-----------------------------------------------------------------------------
(* The patch of the turning angle.                                         *)

CoswKey == <<"ice/cice_in.nml", "dynamics_nml", "cosw">>
SinwKey == <<"ice/cice_in.nml", "dynamics_nml", "sinw">>

\* the namelist file of variant `name` holds the cloned cosw and sinw
BothOriginal(name) ==
    /\ dirs[name].nml[CoswKey] = template.head[CoswKey]
    /\ dirs[name].nml[SinwKey] = template.head[SinwKey]

\* the namelist file of variant `name` holds the pair derived from its angle
BothNew(name) ==
    /\ name[1] = "turning_angle"
    /\ dirs[name].nml[CoswKey] = {np_cos(name[2])}
    /\ dirs[name].nml[SinwKey] = {np_sin(name[2])}

\* C11: the turning-angle patch is all-or-nothing.  At every point, also
\* after a failure between the cosw patch and the final rename, the namelist
\* file of every variant directory holds both cloned values or both new
\* values of (cosw, sinw); the intermediate file _tmp2 holds cosw patched
\* alone (cosw is patched first), _tmp holds both; and once the Patch step
\* has succeeded neither _tmp2 nor _tmp remains in the variant.
C11_PatchAllOrNothing ==
    /\ \A name \in Existing :
          /\ BothOriginal(name) \/ BothNew(name)
          /\ \A n \in dirs[name].tmp2 :
                /\ n[CoswKey] = {np_cos(name[2])}
                /\ n[SinwKey] = template.head[SinwKey]
          /\ (name[1] = "turning_angle") =>
                \A n \in dirs[name].tmp :
                    /\ n[CoswKey] = {np_cos(name[2])}
                    /\ n[SinwKey] = {np_sin(name[2])}
    /\ (InAttempt /\ "patch" \in ops) =>
          dirs[expname(cur)].tmp2 = {} /\ dirs[expname(cur)].tmp = {}

\* the sinw patch failed after the cosw patch: _tmp2 is left behind and the
\* namelist file still holds both cloned values, which are not the new ones
C11_Witness ==
    /\ pc = "failed"
    /\ error = "OSError"
    /\ dirs[expname(cur)].tmp2 # {}
    /\ BothOriginal(expname(cur))
    /\ ~BothNew(expname(cur))
    /\ template.head[CoswKey] # {np_cos(cur.v)}

-----------------------------------------------------------------------------
(* Failures of the external tools.                                         *)

\* C12 as stated: a failure of the setup tool for one variant does not abort
\* the run: no variant attempt in which the setup tool failed ends with an
\* exception leaving ensemble().
C12_ToolFailureTolerated ==
    \A i \in 1..Len(log) :
        "tool_failed" \in log[i].ops => log[i].outcome # "Raised"

-----------------------------------------------------------------------------
(* SyncConfigure applied to the sync_data.sh files of a bounded set: a     *)
(* variant that has just been cloned and patched, in a run whose template  *)
(* carries the file.                                                       *)

SyncLines ==
    { <<"SYNCDIR=", "/", "sync", "/", "control", "\n">>,
      <<"SYNCDIR=", "/", "sync", "/", "control", "/", "\n">>,
      <<"SYNCDIR=", "control", "\n">>,
      <<"#", "SYNCDIR=", "local", "\n">>,
      <<"rsync", "\n">> }

SyncFiles == UNION { [1..n -> SyncLines] : n \in 1..MaxLines }

SyncPaths(name) ==
    { <<"/", "sync", "/", basename(name)>>,
      <<"/", "sync", "/", "control", "/", basename(name)>>,
      <<basename(name)>>,
      <<"control", "/", basename(name)>> }

\* the variant directory after lines 91-105
PatchedClone(t, e) ==
    LET c == clone(t, expname(e))
        n == first_patch(c.nml, e)
    IN  [c EXCEPT !.nml = IF turningangle(e) THEN second_patch(n, e) ELSE n]

SyncInit ==
    /\ test = FALSE
    /\ \E e \in Entries, f \in SyncFiles :
          LET nml == MkNml({np_cos(0)}, {np_sin(0)}, {2}, {2})
              t == [nml |-> nml, head |-> nml, archive |-> TRUE, sync |-> f,
                    origin |-> "template_origin", summary |-> TRUE]
          IN  /\ ~skip(nml, e)
              /\ indata = [keys |-> AllKeys, template |-> OtherTemplate,
                           startfrom |-> <<"3">>, nruns |-> 1,
                           namelists |-> <<e>>]
              /\ template = t
              /\ dirs = [name \in ExpNames |->
                            IF name = expname(e) THEN PatchedClone(t, e)
                            ELSE NoDir]
              /\ syncExists \in SUBSET SyncPaths(expname(e))
    /\ archive = [name \in ExpNames |-> NoArchive]
    /\ submitted = [name \in ExpNames |-> 0]
    /\ pc = "sync"
    /\ run = 1
    /\ idx = 1
    /\ ensemble = <<>>
    /\ workpath = "unset"
    /\ ops = {"read_template", "clone", "patch"}
    /\ log = <<>>
    /\ visits = <<>>
    /\ error = "none"
    /\ prev = [complete |-> FALSE, dirs |-> {}, log |-> <<>>]

SyncNext == SyncConfigure

SyncSpec == SyncInit /\ [][SyncNext]_vars

\* the lines of the template's sync_data.sh that configure a sync directory
SyncdirLines ==
    { i \in 1..Len(template.sync) : Head(template.sync[i]) = "SYNCDIR=" }

\* the directory S configured by line i: the text between SYNCDIR= and the
\* end of the line
Configured(i) == SubSeq(template.sync[i], 2, Len(template.sync[i]) - 1)

LastSyncdirLine == CHOOSE i \in SyncdirLines : \A j \in SyncdirLines : j <= i

\* S/<basename>: the basename appended to S
Appended(S, b) == IF S[Len(S)] = "/" THEN Append(S, b) ELSE S \o <<"/", b>>

\* S with everything after its last slash replaced by the basename
Sibling(S, b) ==
    LET slashes == { i \in 1..Len(S) : S[i] = "/" }
    IN  IF slashes = {}
        THEN <<b>>
        ELSE SubSeq(S, 1, CHOOSE i \in slashes : \A j \in slashes : j <= i)
                 \o <<b>>

SyncConfigured == pc # "sync" /\ SyncdirLines # {}

DiscardedForSync ==
    log # <<>> /\ log[Len(log)].outcome = "DiscardedSyncConflict"

\* C13 as stated: once SyncConfigure has run on a file with a SYNCDIR= line,
\* every SYNCDIR=S line of the clone names S/<basename>, every other line is
\* as in the template, and the variant was discarded for a sync conflict
\* exactly when S/<basename> (of the last such line) existed.
C13_SyncAppended ==
    SyncConfigured =>
        LET name == expname(cur)
            b == basename(name)
        IN  /\ dirs[name].exists =>
                  \A i \in 1..Len(template.sync) :
                      dirs[name].sync[i] =
                          IF i \in SyncdirLines
                          THEN <<"SYNCDIR=">> \o Appended(Configured(i), b)
                                   \o <<"\n">>
                          ELSE template.sync[i]
            /\ DiscardedForSync <=>
                  Appended(Configured(LastSyncdirLine), b) \in syncExists

\* C13 amended: once SyncConfigure has run on a file with a SYNCDIR= line,
\* every SYNCDIR=S line of the clone names S with everything after its last
\* slash replaced by <basename>, every other line is as in the template, and
\* the variant was discarded for a sync conflict exactly when that path (of
\* the last such line) existed.
C13_SyncSibling ==
    SyncConfigured =>
        LET name == expname(cur)
            b == basename(name)
        IN  /\ dirs[name].exists =>
                  /\ Len(dirs[name].sync) = Len(template.sync)
                  /\ \A i \in 1..Len(template.sync) :
                        dirs[name].sync[i] =
                            IF i \in SyncdirLines
                            THEN <<"SYNCDIR=">> \o Sibling(Configured(i), b)
                                     \o <<"\n">>
                            ELSE template.sync[i]
            /\ DiscardedForSync <=>
                  Sibling(Configured(LastSyncdirLine), b) \in syncExists

\* SYNCDIR=/sync/control with /sync/control/<basename> on disk: the clone is
\* kept and its line names /sync/<basename>
C13_Witness ==
    /\ pc = "setup"
    /\ template.sync =
          << <<"rsync", "\n">>,
             <<"SYNCDIR=", "/", "sync", "/", "control", "\n">> >>
    /\ <<"/", "sync", "/", "control", "/", basename(expname(cur))>>
          \in syncExists
    /\ dirs[expname(cur)].sync =
          << <<"rsync", "\n">>,
             <<"SYNCDIR=", "/", "sync", "/", basename(expname(cur)), "\n">> >>

-----------------------------------------------------------------------------
(* Rollback of a clone.                                                    *)

RolledBack == {"DiscardedDuplicate", "DiscardedSyncConflict"}

Elements(seq) == { seq[i] : i \in 1..Len(seq) }

\* C14: rollback on DirtyCheck and SyncConfigure.  A clone gets past the
\* dirty check only with uncommitted changes and past SyncConfigure only when
\* its rewritten sync destination does not exist; an attempt that ended
\* DiscardedDuplicate or DiscardedSyncConflict deleted the variant directory,
\* made no commit and never invoked the setup tool; and when it has ended the
\* directory does not exist, the path is not in the result list and the loop
\* goes on with the next value.
C14_Rollback ==
    /\ pc = "sync" => dirs[expname(cur)].nml # dirs[expname(cur)].head
    /\ pc \in {"setup", "archive", "link", "metadata", "commit"} =>
          /\ dirs[expname(cur)].nml # dirs[expname(cur)].head
          /\ SyncDest(expname(cur)) \notin syncExists
    /\ \A i \in 1..Len(log) :
          log[i].outcome \in RolledBack =>
              /\ ~log[i].exists
              /\ "rmtree" \in log[i].ops
              /\ log[i].ops \cap {"commit", "setup", "link", "metadata"} = {}
    /\ (log # <<>> /\ log[Len(log)].outcome \in RolledBack /\ pc = "loop") =>
          /\ dirs[log[Len(log)].name] = NoDir
          /\ log[Len(log)].name \notin Elements(ensemble)
          /\ error = "none"

\* one value discarded because the patch changed nothing, the next because
\* its sync destination existed; the loop is about to go on
C14_Witness ==
    /\ pc = "loop"
    /\ Len(log) = 2
    /\ log[1].outcome = "DiscardedDuplicate"
    /\ log[2].outcome = "DiscardedSyncConflict"
    /\ Existing = {}
    /\ ensemble = <<>>

-----------------------------------------------------------------------------
(* Restart linkage.                                                        *)

\* the text is the word rest in any case, with blanks around it at most
IsRest(raw) ==
    \E i \in 1..Len(raw) :
        /\ i + 3 <= Len(raw)
        /\ raw[i] \in {"r", "R"}
        /\ raw[i + 1] \in {"e", "E"}
        /\ raw[i + 2] \in {"s", "S"}
        /\ raw[i + 3] \in {"t", "T"}
        /\ \A j \in 1..Len(raw) : (j < i \/ j > i + 3) => raw[j] = " "

JustCommitted ==
    pc = "loop" /\ log # <<>> /\ log[Len(log)].outcome = "Committed"

\* C15: restart linkage is skipped exactly when startfrom, stripped and
\* lower-cased, is the word rest.  Then no attempt invokes the setup tool or
\* reaches the linkage, and a variant just committed has no archive symlink,
\* restart symlink or namelist copy.  Otherwise a variant just committed went
\* through setup and linkage, its work path was resolved (the archive path
\* is derived from it) and it has the archive symlink, the restart symlink
\* and the copy of the template's output namelist.
C15_RestartLinkage ==
    /\ pc \in {"setup", "archive", "link"} => ~IsRest(indata.startfrom)
    /\ IsRest(indata.startfrom) =>
          /\ \A i \in 1..Len(log) : log[i].ops \cap {"setup", "link"} = {}
          /\ JustCommitted => dirs[log[Len(log)].name].links = {}
    /\ (~IsRest(indata.startfrom) /\ JustCommitted) =>
          /\ {"setup", "link"} \subseteq log[Len(log)].ops
          /\ workpath = "staged"
          /\ dirs[log[Len(log)].name].links =
                {"archive", "restart", "output_nml"}

\* startfrom given as " Rest": a variant committed without any link
C15_Witness ==
    /\ JustCommitted
    /\ IsRest(indata.startfrom)
    /\ indata.startfrom # rest
    /\ dirs[log[Len(log)].name].links = {}
    /\ dirs[log[Len(log)].name].metadata

-----------------------------------------------------------------------------
(* Order of the pass.                                                      *)

\* C16: ordering of the pass.  The attempts are made one at a time in the
\* configured order: the log holds one entry per value already attempted, in
\* the order of the specification, and while an attempt is under way all
\* earlier ones have ended.  No path is visited for dispatch before every
\* value of every axis has reached a terminal outcome, and the visits follow
\* the order of the result list.
C16_Ordering ==
    /\ Len(log) <= Len(indata.namelists)
    /\ \A i \in 1..Len(log) : log[i].name = expname(indata.namelists[i])
    /\ InAttempt => Len(log) = idx - 1
    /\ visits # <<>> =>
          /\ pc \in {"reconcile", "done"}
          /\ Len(log) = Len(indata.namelists)
          /\ \A i \in 1..Len(log) : log[i].outcome \in Outcomes
    /\ Len(visits) <= Len(ensemble)
    /\ \A i \in 1..Len(visits) : visits[i].name = ensemble[i]

\* two different variants dispatched one after the other
C16_Witness ==
    /\ pc = "done"
    /\ ~test
    /\ Len(visits) = 2
    /\ visits[1].name # visits[2].name
    /\ visits[1].dispatched /\ visits[2].dispatched

-----------------------------------------------------------------------------
(* The repository of a variant.                                            *)

\* C17: repository shape of a committed variant.  Its remote template refers
\* to the template clone, its remote origin has the template's own origin
\* URL, its branch has the variant's name, and it carries exactly one commit
\* on top of the cloned HEAD, with the message set up <name>; the commit
\* holds the patched namelist, the rewritten sync_data.sh, the job name and
\* metadata of the variant and no run summary, and the attempt that made it
\* went through clone, patch, sync configuration, restart linkage (unless
\* startfrom is rest), metadata update and run-summary removal first.
C17_RepositoryShape ==
    /\ \A name \in Existing :
          LET d == dirs[name]
          IN  d.commits # <<>> =>
                  /\ d.remotes = {<<"template", "templatepath">>,
                                  <<"origin", template.origin>>}
                  /\ d.branch = name
                  /\ d.commits = <<<<"set up", name>>>>
                  /\ d.head = d.nml
                  /\ d.nml # template.head
                  /\ d.sync # template.sync
                  /\ d.jobname = name
                  /\ d.metadata
                  /\ ~d.summary
                  /\ d.tmp = {} /\ d.tmp2 = {}
    /\ \A i \in 1..Len(log) :
          "commit" \in log[i].ops =>
              /\ log[i].outcome = "Committed"
              /\ {"clone", "patch", "sync", "metadata", "rm_summary"}
                     \subseteq log[i].ops
              /\ startfrom # rest => "link" \in log[i].ops

\* a variant committed after restart linkage
C17_Witness ==
    /\ JustCommitted
    /\ "link" \in log[Len(log)].ops
    /\ dirs[log[Len(log)].name].commits # <<>>
    /\ dirs[log[Len(log)].name].links = {"archive", "restart", "output_nml"}

-----------------------------------------------------------------------------
(* The result list and the dispatches.                                     *)

\* C18 as stated: the result list never holds the same variant path twice,
\* and within one run no variant directory is dispatched more than once.
C18_NoDuplicatePaths ==
    /\ \A i, j \in 1..Len(ensemble) : i # j => ensemble[i] # ensemble[j]
    /\ \A i, j \in 1..Len(visits) :
          (i # j /\ visits[i].dispatched /\ visits[j].dispatched) =>
              visits[i].name # visits[j].name

\* C19 as stated: for every path visited doneruns is not negative, and a
\* dispatch never requests more than nruns cycles.
C19_DoneRunsNonNegative ==
    \A i \in 1..Len(visits) :
        /\ visits[i].doneruns >= 0
        /\ visits[i].dispatched => visits[i].newruns <= indata.nruns

\* C20 as stated: every path in the result list, and every path dispatched,
\* is a variant whose set up commit was made.
C20_ResultSetFullyBuilt ==
    /\ \A name \in Elements(ensemble) :
          dirs[name].exists /\ dirs[name].commits = <<<<"set up", name>>>>
    /\ \A i \in 1..Len(visits) :
          visits[i].dispatched => dirs[visits[i].name].commits # <<>>

====
